---- MODULE Spec2Model ----
(***************************************************************************)
(* A model of the IChing encoder (src/src/core/encoder/Encoder.ts) and of  *)
(* the IChing writer (src/unnamed/part_000, class Writer).                 *)
(*                                                                         *)
(* JavaScript values: a number n is the one-element tuple <<n>>, and       *)
(* undefined/NaN is the empty tuple <<>>, wherever the code can produce    *)
(* undefined (a lookup past the end of a table, a missing property).       *)
(* A string is the sequence of its UTF-16 code units.                      *)
(***************************************************************************)
EXTENDS Integers, Sequences, FiniteSets, TLC

VARIABLES
    mode,      \* which caller drives the run
    pc,        \* position of the caller / of Writer.render
    content,   \* the string handed to Encoder.encode
    code,      \* the EncodedIChing object (NoCode before there is one)
    matrix,    \* the BitMatrix owned by Writer.render
    i, j,      \* the loop counters of Writer.render's symbol loops
    drawn,     \* the drawSymbol calls made so far: <<row, col, mask>>
    image,     \* the ImageData returned by Writer.render (NoImage before)
    centre,    \* pattern drivers: the centre handed to the drawing method
    radius,    \* pattern drivers: the loop counter, in sevenths of a pixel
    finderRadius, \* pattern drivers: the value of Constants.FINDER_RADIUS
    calls      \* pattern drivers: the radii handed to drawCircle, in sevenths

vars == <<mode, pc, content, code, matrix, i, j, drawn, image,
          centre, radius, finderRadius, calls>>

(***************************************************************************)
(* JavaScript numbers and property reads.                                  *)
(***************************************************************************)
Undefined == <<>>

Num(n) == <<n>>

IsNum(v) == v # Undefined

\* obj.name: the value of the property, undefined when the object has none.
Prop(obj, name) == IF name \in DOMAIN obj THEN Num(obj[name]) ELSE Undefined

\* a * b, a + b, a - b on JavaScript numbers: NaN when an operand is undefined/NaN.
Mul(a, b) == IF IsNum(a) /\ IsNum(b) THEN Num(a[1] * b[1]) ELSE Undefined

Add(a, b) == IF IsNum(a) /\ IsNum(b) THEN Num(a[1] + b[1]) ELSE Undefined

Sub(a, b) == IF IsNum(a) /\ IsNum(b) THEN Num(a[1] - b[1]) ELSE Undefined

\* a < b on JavaScript numbers: false when an operand is undefined/NaN.
Lt(a, b) == IsNum(a) /\ IsNum(b) /\ a[1] < b[1]

\* The conversion a Uint16Array applies to a stored value: modulo 2^16, and 0
\* for undefined/NaN.
ToUint16(v) == IF IsNum(v) THEN v[1] % 65536 ELSE 0

(***************************************************************************)
(* Encoder                                                                 *)
(***************************************************************************)
VERSION == 0

WIDTH == 8

HEIGHT == 8

MAPPING_TABLE ==
    << -1, -1, -1, -1, -1, -1, -1, -1, -1, -1, -1, -1, -1, -1, -1, -1,
       -1, -1, -1, -1, -1, -1, -1, -1, -1, -1, -1, -1, -1, -1, -1, -1,
       -1, -1, -1, -1, -1, -1, -1, -1, -1, -1, -1, -1, -1, -1, -1, -1,
       52, 53, 54, 55, 56, 57, 58, 59, 60, 61, -1, -1, -1, -1, -1, -1,
       -1, 26, 27, 28, 29, 30, 31, 32, 33, 34, 35, 36, 37, 38, 39, 40,
       41, 42, 43, 44, 45, 46, 47, 48, 49, 50, 51, -1, -1, -1, -1, -1,
       -1, 0, 1, 2, 3, 4, 5, 6, 7, 8, 9, 10, 11, 12, 13, 14,
       15, 16, 17, 18, 19, 20, 21, 22, 23, 24, 25, -1, -1, -1, -1, -1 >>

\* A mapping table whose upper-case and lower-case rows are exchanged.
MappingTableAt_CaseSwapped(c) ==
    IF c < Len(MAPPING_TABLE)
    THEN Num(MAPPING_TABLE[(IF c >= 64 /\ c < 96 THEN c + 32
                            ELSE IF c >= 96 THEN c - 32 ELSE c) + 1])
    ELSE Undefined

\* this.MAPPING_TABLE[c] for a char code c >= 0: the Int16Array element, and
\* undefined past the end of the table.
MappingTableAt(c) ==
    IF c < Len(MAPPING_TABLE) THEN Num(MAPPING_TABLE[c + 1]) ELSE Undefined

\* content.charCodeAt(k), k a 0-based index inside the string.
CharCodeAt(s, k) == s[k + 1]

\* data[k] = v on a Uint16Array: the value is converted, and a write outside
\* the array is ignored.
StoreUint16(data, k, v) ==
    IF k \in DOMAIN data THEN [data EXCEPT ![k] = ToUint16(v)] ELSE data

\* A buffer that is left zeroed, as new Uint16Array(n) creates it.
FillerData_Zeroed(n) == [k \in 0 .. n - 1 |-> 0]

\* new Uint16Array(n) followed by the loop data[i] = i.
FillerData(n) == [k \in 0 .. n - 1 |-> ToUint16(Num(k))]

\* data[0] = version; data[1] = content.length.
WriteHeader(data, s) ==
    StoreUint16(StoreUint16(data, 0, Num(VERSION)), 1, Num(Len(s)))

\* The payload loop writing from cell 1 instead of cell 2.
WritePayload_OffByOne(data, s) ==
    [k \in DOMAIN data |->
        IF k - 1 \in 0 .. Len(s) - 1
        THEN ToUint16(MappingTableAt(CharCodeAt(s, k - 1)))
        ELSE data[k]]

\* for (i = 0; i < content.length; i++) data[i + 2] = MAPPING_TABLE[charCodeAt(i)]:
\* pass i stores into cell i + 2, no two passes store into the same cell, and
\* a store past the end of the Uint16Array is ignored, so cell k ends with the
\* value stored by pass k - 2 if there is one.
WritePayload(data, s) ==
    [k \in DOMAIN data |->
        IF k - 2 \in 0 .. Len(s) - 1
        THEN ToUint16(MappingTableAt(CharCodeAt(s, k - 2)))
        ELSE data[k]]

\* Encoder.encode(content): the object it returns.  It has no throw statement.
encode(s) ==
    [version |-> VERSION,
     width   |-> WIDTH,
     height  |-> HEIGHT,
     data    |-> WritePayload(WriteHeader(FillerData(WIDTH * HEIGHT), s), s)]

(***************************************************************************)
(* The strings the encoder is run on.                                      *)
(***************************************************************************)
MaxContentLen == 64

MaxCharCode == 130

\* The 62 supported characters, as char codes: '0'..'9', 'A'..'Z', 'a'..'z'.
Alnum == (48 .. 57) \cup (65 .. 90) \cup (97 .. 122)

AlnumSeq ==
    [k \in 1 .. 62 |-> IF k <= 10 THEN 47 + k
                        ELSE IF k <= 36 THEN 54 + k ELSE 60 + k]

\* The string of length n that walks the supported characters from the s-th on.
Walk(n, s) == [k \in 1 .. n |-> AlnumSeq[((s + k - 1) % 62) + 1]]

\* Walk(n, 0) with the character at position p replaced by the char code c.
Edited(n, p, c) == [Walk(n, 0) EXCEPT ![p] = c]

ValidContents == { Walk(n, s) : n \in 0 .. MaxContentLen, s \in 0 .. 61 }

EditedContents ==
    UNION { { Edited(n, p, c) : p \in {1, (n + 1) \div 2, n}, c \in 0 .. MaxCharCode }
            : n \in 1 .. MaxContentLen }

Contents == ValidContents \cup EditedContents

NoCode == <<>>

NoImage == <<>>

NoMatrix == <<>>

\* The caller calls Encoder.encode(content).
Encode ==
    /\ pc = "ready"
    /\ code' = encode(content)
    /\ pc' = "encoded"
    /\ UNCHANGED <<mode, content, matrix, i, j, drawn, image,
                   centre, radius, finderRadius, calls>>

InitIdle ==
    /\ code = NoCode
    /\ matrix = NoMatrix
    /\ i = 0
    /\ j = 0
    /\ drawn = {}
    /\ image = NoImage
    /\ centre = [x |-> 0, y |-> 0]
    /\ radius = 0
    /\ finderRadius = 0
    /\ calls = <<>>

InitEncoder ==
    /\ mode = "encode"
    /\ pc = "ready"
    /\ content \in Contents
    /\ InitIdle

NextEncoder == Encode

SpecEncoder == InitEncoder /\ [][NextEncoder]_vars

(***************************************************************************)
(* Encoder claims                                                          *)
(***************************************************************************)
Capacity == WIDTH * HEIGHT - 2

Supported(s) == \A k \in 1 .. Len(s) : s[k] \in Alnum

\* The documented code of a supported character.
DocumentedCode(c) ==
    IF c >= 97 THEN c - 97 ELSE IF c >= 65 THEN c - 65 + 26 ELSE c - 48 + 52

Encoded == pc = "encoded"

\* C1: encode on a content longer than rows*cols - 2 = 62 characters fails
\* and returns no grid.
C1_TooLongIsRejected ==
    (Encoded /\ Len(content) > Capacity) => code = NoCode

\* C2: encode on a content holding a character outside A-Z, a-z, 0-9 fails and
\* produces no grid at all.
C2_UnsupportedIsRejected ==
    (Encoded /\ ~Supported(content)) => code = NoCode

\* C3: for a content of length n <= 62 of supported characters, cell i+2 holds
\* the documented code of character i ('a'..'z' -> 0..25, 'A'..'Z' -> 26..51,
\* '0'..'9' -> 52..61), so every payload cell is in 0..61.
C3_PayloadCells ==
    (Encoded /\ Supported(content) /\ Len(content) <= Capacity) =>
        \A k \in 0 .. Len(content) - 1 :
            /\ code.data[k + 2] = DocumentedCode(CharCodeAt(content, k))
            /\ code.data[k + 2] \in 0 .. 61

C3_Witness ==
    /\ Encoded /\ Supported(content) /\ Len(content) = Capacity
    /\ code.data[2] = 26 /\ code.data[Capacity + 1] = 61

\* C4: every cell from content.length + 2 up to rows*cols - 1 holds its own
\* index, and the empty content leaves only cell 0 (version) and cell 1
\* (length 0) as non-filler cells.
C4_FillerCells ==
    Encoded =>
        /\ \A k \in Len(content) + 2 .. WIDTH * HEIGHT - 1 : code.data[k] = k
        /\ Len(content) = 0 => (code.data[0] = VERSION /\ code.data[1] = 0)

C4_Witness ==
    /\ Encoded /\ Len(content) = 5
    /\ code.data[7] = 7 /\ code.data[6] # 6

\* C5: for a content of length n <= 62 of supported characters, encode returns
\* a grid with cell 0 = VERSION and cell 1 = n: the payload loop leaves the
\* two header cells alone.
C5_HeaderCells ==
    (Encoded /\ Supported(content) /\ Len(content) <= Capacity) =>
        /\ code # NoCode
        /\ code.version = VERSION
        /\ code.data[0] = VERSION
        /\ code.data[1] = Len(content)

C5_Witness ==
    /\ Encoded /\ Supported(content) /\ Len(content) = Capacity
    /\ code.data[1] = Capacity /\ code.data[0] = VERSION

(***************************************************************************)
(* BitMatrix and the layout constants, imported by the writer from         *)
(* ../BitMatrix and ../constants.  The matrix follows its documented       *)
(* policy: zero-filled at construction, a write outside it is ignored.     *)
(* The constants are one layout: a symbol is BITS_PER_SYMBOL bars and the  *)
(* gaps between them, (2 * BITS_PER_SYMBOL - 1) * UNIT_DIM pixels, and     *)
(* UNIT_DIM is even, so that UNIT_DIM * 4.5 is a whole pixel.              *)
(***************************************************************************)
UNIT_DIM == 2

BITS_PER_SYMBOL == 6

SYMBOL_DIM == 22

GAP_DIM == 4

GRID_OFFSET == 18

FINDER_OFFSET == 9

FINDER_RADIUS == 7

\* new BitMatrix(height, width): all pixels 0.  bits is the set of the pixels
\* <<x, y>> that hold 1.
BitMatrixNew(height, width) == [height |-> height, width |-> width, bits |-> {}]

\* The pixels among pts, pairs of JavaScript numbers <<x, y>>, that lie in the matrix.
InMatrix(m, pts) ==
    { <<p[1][1], p[2][1]>> :
        p \in { q \in pts : /\ IsNum(q[1]) /\ IsNum(q[2])
                            /\ IsNum(m.width) /\ IsNum(m.height)
                            /\ q[1][1] >= 0 /\ q[1][1] < m.width[1]
                            /\ q[2][1] >= 0 /\ q[2][1] < m.height[1] } }

\* matrix.set(x, y, color) for every <<x, y>> of pts.
BitMatrixSet(m, pts, color) ==
    [m EXCEPT !.bits = IF color = 1 THEN @ \cup InMatrix(m, pts)
                                    ELSE @ \ InMatrix(m, pts)]

(***************************************************************************)
(* Writer                                                                  *)
(***************************************************************************)
\* imgHeight, from code.rows.
ImgHeight(c) ==
    Add(Add(Mul(Prop(c, "rows"), Num(SYMBOL_DIM)),
            Mul(Sub(Prop(c, "rows"), Num(1)), Num(GAP_DIM))),
        Num(GRID_OFFSET * 2))

\* imgWidth, from code.cols.
ImgWidth(c) ==
    Add(Add(Mul(Prop(c, "cols"), Num(SYMBOL_DIM)),
            Mul(Sub(Prop(c, "cols"), Num(1)), Num(GAP_DIM))),
        Num(GRID_OFFSET * 2))

\* The matrix allocated with the two dimensions exchanged.
NewMatrix_Transposed(c) == BitMatrixNew(ImgWidth(c), ImgHeight(c))

\* new BitMatrix(imgHeight, imgWidth).
NewMatrix(c) == BitMatrixNew(ImgHeight(c), ImgWidth(c))

\* Only the four mirror images that keep x and y in place.
setPixelSymmetricOctant_FourFold(c, x, y) ==
    { <<Add(c.x, Num(x)), Add(c.y, Num(y))>>,
      <<Add(c.x, Num(x)), Sub(c.y, Num(y))>>,
      <<Sub(c.x, Num(x)), Add(c.y, Num(y))>>,
      <<Sub(c.x, Num(x)), Sub(c.y, Num(y))>> }

\* The eight pixels setPixelSymmetricOctant sets for the offset (x, y).
setPixelSymmetricOctant(c, x, y) ==
    { <<Add(c.x, Num(x)), Add(c.y, Num(y))>>,
      <<Add(c.x, Num(x)), Sub(c.y, Num(y))>>,
      <<Sub(c.x, Num(x)), Add(c.y, Num(y))>>,
      <<Sub(c.x, Num(x)), Sub(c.y, Num(y))>>,
      <<Add(c.x, Num(y)), Add(c.y, Num(x))>>,
      <<Add(c.x, Num(y)), Sub(c.y, Num(x))>>,
      <<Sub(c.x, Num(y)), Add(c.y, Num(x))>>,
      <<Sub(c.x, Num(y)), Sub(c.y, Num(x))>> }

\* The while loop of drawCircle from the loop state (x, y, dx, dy, err): the
\* pixels it sets.
RECURSIVE CircleLoop(_, _, _, _, _, _, _)
CircleLoop(c, r, x, y, dx, dy, err) ==
    IF x >= y
    THEN setPixelSymmetricOctant(c, x, y) \cup
         (IF err <= 0
          THEN CircleLoop(c, r, x, y + 1, dx, dy + 2, err + dy)
          ELSE CircleLoop(c, r, x - 1, y, dx + 2, dy, err + (dx + 2) - 2 * r))
    ELSE {}

\* drawCircle(c, r, color, matrix) for an integer radius r.
drawCircle(c, r, color, m) ==
    BitMatrixSet(m, CircleLoop(c, r, r, 0, 1, 1, 1 - 2 * r), color)

\* for (i = from; i <= to; i++): the values i takes, all in sevenths of a
\* pixel (the bounds R*3/7 and R*5/7 are fractions with denominator 7).
RECURSIVE RadiiLoop(_, _)
RadiiLoop(from7, to7) ==
    IF from7 <= to7 THEN <<from7>> \o RadiiLoop(from7 + 7, to7) ELSE <<>>

\* The radii drawFinderPattern hands to drawCircle when FINDER_RADIUS is R,
\* in sevenths: i = 0 .. r1, then i = r2 + 1 .. r3.
FinderRadii7(R) == RadiiLoop(0, 3 * R) \o RadiiLoop(5 * R + 7, 7 * R)

\* The radii drawAlignmentPattern hands to drawCircle, in sevenths:
\* i = r1 + 1 .. r2.
AlignmentRadii7(R) == RadiiLoop(3 * R + 7, 5 * R)

\* drawCircle(centre, i, 1, matrix) for every i of radii7, in order.  The
\* radii are whole pixels for the FINDER_RADIUS above, a multiple of 7.
RECURSIVE DrawCircles(_, _, _)
DrawCircles(c, radii7, m) ==
    IF radii7 = <<>> THEN m
    ELSE DrawCircles(c, Tail(radii7), drawCircle(c, Head(radii7) \div 7, 1, m))

drawFinderPattern(c, m) == DrawCircles(c, FinderRadii7(FINDER_RADIUS), m)

drawAlignmentPattern(c, m) == DrawCircles(c, AlignmentRadii7(FINDER_RADIUS), m)

\* fillRect(x, y, width, height, color, matrix).
fillRect(x, y, width, height, color, m) ==
    BitMatrixSet(m, { <<Num(x + jj), Num(y + ii)>> :
                        jj \in 0 .. width - 1, ii \in 0 .. height - 1 }, color)

\* code.data[k] as the 32-bit integer the & operator sees: 0 for undefined.
MaskAt(c, k) == IF k \in DOMAIN c.data THEN c.data[k] ELSE 0

\* (mask & (1 << bit)) === 0.
BitIsZero(mask, bit) == (mask \div (2 ^ bit)) % 2 = 0

StartOf(k) == k * (SYMBOL_DIM + GAP_DIM) + GRID_OFFSET

\* One pass of the bit loop with the clearing done before the filling.
DrawBar_ClearFirst(row, col, mask, bit, m) ==
    LET cleared == IF BitIsZero(mask, bit)
                   THEN fillRect(StartOf(col) + (UNIT_DIM * 9) \div 2,
                                 StartOf(row) + UNIT_DIM * bit * 2,
                                 UNIT_DIM * 2, UNIT_DIM, 0, m)
                   ELSE m
    IN  fillRect(StartOf(col), StartOf(row) + UNIT_DIM * bit * 2,
                 SYMBOL_DIM, UNIT_DIM, 1, cleared)

\* One pass of the bit loop of drawSymbol.  UNIT_DIM * 4.5 is the whole
\* number UNIT_DIM * 9 / 2 for the even UNIT_DIM above.
DrawBar(row, col, mask, bit, m) ==
    LET filled == fillRect(StartOf(col), StartOf(row) + UNIT_DIM * bit * 2,
                           SYMBOL_DIM, UNIT_DIM, 1, m)
    IN  IF BitIsZero(mask, bit)
        THEN fillRect(StartOf(col) + (UNIT_DIM * 9) \div 2,
                      StartOf(row) + UNIT_DIM * bit * 2,
                      UNIT_DIM * 2, UNIT_DIM, 0, filled)
        ELSE filled

\* drawSymbol(row, col, mask, matrix): the bit loop from bit on.
RECURSIVE BitLoop(_, _, _, _, _)
BitLoop(row, col, mask, bit, m) ==
    IF bit < BITS_PER_SYMBOL
    THEN BitLoop(row, col, mask, bit + 1, DrawBar(row, col, mask, bit, m))
    ELSE m

drawSymbol(row, col, mask, m) == BitLoop(row, col, mask, 0, m)

(***************************************************************************)
(* Writer.render, one step for each drawing call it makes.                 *)
(***************************************************************************)
FinderPoint == Num(FINDER_OFFSET)

\* rows, cols, imgHeight, imgWidth and the new BitMatrix.
RenderBegin ==
    /\ pc \in {"encoded", "render"}
    /\ matrix' = NewMatrix(code)
    /\ pc' = "finder1"
    /\ UNCHANGED <<mode, content, code, i, j, drawn, image,
                   centre, radius, finderRadius, calls>>

DrawFinderTopLeft ==
    /\ pc = "finder1"
    /\ matrix' = drawFinderPattern([x |-> FinderPoint, y |-> FinderPoint], matrix)
    /\ pc' = "finder2"
    /\ UNCHANGED <<mode, content, code, i, j, drawn, image,
                   centre, radius, finderRadius, calls>>

DrawFinderTopRight ==
    /\ pc = "finder2"
    /\ matrix' = drawFinderPattern(
                    [x |-> Sub(matrix.width, FinderPoint), y |-> FinderPoint], matrix)
    /\ pc' = "finder3"
    /\ UNCHANGED <<mode, content, code, i, j, drawn, image,
                   centre, radius, finderRadius, calls>>

DrawFinderBottomLeft ==
    /\ pc = "finder3"
    /\ matrix' = drawFinderPattern(
                    [x |-> FinderPoint, y |-> Sub(matrix.height, FinderPoint)], matrix)
    /\ pc' = "alignment"
    /\ UNCHANGED <<mode, content, code, i, j, drawn, image,
                   centre, radius, finderRadius, calls>>

DrawAlignment ==
    /\ pc = "alignment"
    /\ matrix' = drawAlignmentPattern(
                    [x |-> Sub(matrix.width, FinderPoint),
                     y |-> Sub(matrix.height, FinderPoint)], matrix)
    /\ pc' = "symbols"
    /\ i' = 0
    /\ j' = 0
    /\ UNCHANGED <<mode, content, code, drawn, image,
                   centre, radius, finderRadius, calls>>

\* The body of the inner loop: i < rows and j < cols.
DrawSymbol ==
    /\ pc = "symbols"
    /\ Lt(Num(i), Prop(code, "rows"))
    /\ Lt(Num(j), Prop(code, "cols"))
    /\ matrix' = drawSymbol(i, j, MaskAt(code, i * code.cols + j), matrix)
    /\ drawn' = drawn \cup {<<i, j, MaskAt(code, i * code.cols + j)>>}
    /\ j' = j + 1
    /\ UNCHANGED <<mode, pc, content, code, i, image,
                   centre, radius, finderRadius, calls>>

\* The inner loop ends: i < rows and not j < cols.
NextRow ==
    /\ pc = "symbols"
    /\ Lt(Num(i), Prop(code, "rows"))
    /\ ~Lt(Num(j), Prop(code, "cols"))
    /\ i' = i + 1
    /\ j' = 0
    /\ UNCHANGED <<mode, pc, content, code, matrix, drawn, image,
                   centre, radius, finderRadius, calls>>

\* The outer loop ends: return new ImageData(matrix).
RenderReturn ==
    /\ pc = "symbols"
    /\ ~Lt(Num(i), Prop(code, "rows"))
    /\ image' = matrix
    /\ pc' = "done"
    /\ UNCHANGED <<mode, content, code, matrix, i, j, drawn,
                   centre, radius, finderRadius, calls>>

(***************************************************************************)
(* The two callers: encode then render, and render on a grid of the        *)
(* caller's own, with the properties Writer.render reads.                  *)
(***************************************************************************)
MaxRows == 2

MaxCols == 2

MaxSeed == 31

PipelineContents == { Walk(n, 0) : n \in 0 .. MaxContentLen }

Grid(rows, cols, seed) ==
    [version |-> VERSION, rows |-> rows, cols |-> cols,
     data |-> [k \in 0 .. rows * cols - 1 |-> ToUint16(Num(seed + 37 * k))]]

Grids ==
    { Grid(rows, cols, seed) :
        rows \in 1 .. MaxRows, cols \in 1 .. MaxCols, seed \in (0 .. MaxSeed) \cup {65535} }

InitPipeline ==
    /\ mode = "pipeline"
    /\ pc = "ready"
    /\ content \in PipelineContents
    /\ InitIdle

InitRender ==
    /\ mode = "render"
    /\ pc = "render"
    /\ content = <<>>
    /\ code \in Grids
    /\ matrix = NoMatrix
    /\ i = 0
    /\ j = 0
    /\ drawn = {}
    /\ image = NoImage
    /\ centre = [x |-> 0, y |-> 0]
    /\ radius = 0
    /\ finderRadius = 0
    /\ calls = <<>>

Init == InitPipeline \/ InitRender

Next ==
    \/ Encode
    \/ RenderBegin
    \/ DrawFinderTopLeft
    \/ DrawFinderTopRight
    \/ DrawFinderBottomLeft
    \/ DrawAlignment
    \/ DrawSymbol
    \/ NextRow
    \/ RenderReturn

Spec == Init /\ [][Next]_vars

(***************************************************************************)
(* Writer claims                                                           *)
(***************************************************************************)
ValidGrid(c) ==
    /\ c # NoCode
    /\ "rows" \in DOMAIN c
    /\ "cols" \in DOMAIN c
    /\ c.rows >= 1
    /\ c.cols >= 1

Allocated == pc \in {"finder1", "finder2", "finder3", "alignment", "symbols", "done"}

Extent(n) == n * SYMBOL_DIM + (n - 1) * GAP_DIM + 2 * GRID_OFFSET

\* C6: the grid encode returns carries rows = HEIGHT = 8 and cols = WIDTH = 8
\* under the names render reads, so render(encode(content)) allocates the
\* bitmap from rows = cols = 8 and draws one glyph for each of the 64 cells,
\* the glyph at (i, j) showing cells[i*cols + j].
C6_StagesCompose ==
    (mode = "pipeline" /\ pc = "done") =>
        /\ Prop(code, "rows") = Num(HEIGHT)
        /\ Prop(code, "cols") = Num(WIDTH)
        /\ image.height = Num(Extent(HEIGHT))
        /\ image.width = Num(Extent(WIDTH))
        /\ { <<d[1], d[2]>> : d \in drawn } = (0 .. HEIGHT - 1) \X (0 .. WIDTH - 1)
        /\ \A d \in drawn : d[3] = code.data[d[1] * WIDTH + d[2]]

\* C7: on a grid with rows >= 1 and cols >= 1 the matrix is allocated with
\* height rows*SYMBOL_DIM + (rows-1)*GAP_DIM + 2*GRID_OFFSET and the analogous
\* width, in that order, keeps these dimensions through every drawing step,
\* and is the bitmap render returns.
C7_BitmapDimensions ==
    (Allocated /\ ValidGrid(code)) =>
        /\ matrix.height = Num(Extent(code.rows))
        /\ matrix.width = Num(Extent(code.cols))
        /\ pc = "done" => (image.height = Num(Extent(code.rows)) /\
                           image.width = Num(Extent(code.cols)))

C7_Witness ==
    /\ pc = "done" /\ ValidGrid(code)
    /\ code.rows = 1 /\ code.cols = 2
    /\ image.height = Num(SYMBOL_DIM + 2 * GRID_OFFSET)
    /\ image.width = Num(2 * SYMBOL_DIM + GAP_DIM + 2 * GRID_OFFSET)

\* The pixel at offset (dx, dy) of bar b of the symbol at (row, col).
BarPixel(row, col, b, dx, dy) ==
    <<StartOf(col) + dx, StartOf(row) + 2 * UNIT_DIM * b + dy>>

\* dx lies in the notch: 2*UNIT_DIM pixels from 4.5*UNIT_DIM on.
InNotch(dx) == 2 * dx >= 9 * UNIT_DIM /\ 2 * dx < 13 * UNIT_DIM

BitIsOne(v, b) == (v \div (2 ^ b)) % 2 = 1

\* C8: once drawSymbol has drawn a cell of value v, and from then on, bar b of
\* the cell is set across all SYMBOL_DIM pixels when bit b of v is 1, and is
\* set everywhere but in the notch (2*UNIT_DIM pixels from 4.5*UNIT_DIM on)
\* when bit b of v is 0.
C8_GlyphBars ==
    ValidGrid(code) =>
        \A d \in drawn :
            \A b \in 0 .. BITS_PER_SYMBOL - 1 :
                \A dx \in 0 .. SYMBOL_DIM - 1, dy \in 0 .. UNIT_DIM - 1 :
                    (BarPixel(d[1], d[2], b, dx, dy) \in matrix.bits) <=>
                        (BitIsOne(code.data[d[1] * code.cols + d[2]], b) \/ ~InNotch(dx))

C8_Witness ==
    /\ pc = "done" /\ ValidGrid(code)
    /\ code.rows = 2 /\ code.cols = 2 /\ code.data[0] = 1
    /\ <<0, 0, 1>> \in drawn
    /\ BarPixel(0, 0, 0, 10, 0) \in image.bits
    /\ BarPixel(0, 0, 1, 10, 0) \notin image.bits
    /\ BarPixel(0, 0, 1, 8, 0) \in image.bits

(***************************************************************************)
(* The filled disk: the first loop of drawFinderPattern, one drawCircle    *)
(* call for each step, for any radius bound and any centre with room.      *)
(***************************************************************************)
MaxDiskRadius == 9

DiskSide == 2 * MaxDiskRadius + 1

HasRoom(c, r) ==
    /\ c.x[1] - r >= 0 /\ c.x[1] + r < DiskSide
    /\ c.y[1] - r >= 0 /\ c.y[1] + r < DiskSide

\* this.drawCircle(centre, i, 1, matrix); i++.
DrawNextCircle ==
    /\ pc = "disk"
    /\ radius \div 7 <= MaxDiskRadius
    /\ HasRoom(centre, radius \div 7)
    /\ matrix' = drawCircle(centre, radius \div 7, 1, matrix)
    /\ calls' = Append(calls, <<"disk", radius>>)
    /\ radius' = radius + 7
    /\ UNCHANGED <<mode, pc, content, code, i, j, drawn, image, centre, finderRadius>>

InitDisk ==
    /\ mode = "disk"
    /\ pc = "disk"
    /\ content = <<>>
    /\ code = NoCode
    /\ matrix = BitMatrixNew(Num(DiskSide), Num(DiskSide))
    /\ i = 0
    /\ j = 0
    /\ drawn = {}
    /\ image = NoImage
    /\ centre \in { [x |-> Num(a), y |-> Num(b)] :
                      a \in 0 .. DiskSide - 1, b \in 0 .. DiskSide - 1 }
    /\ radius = 0
    /\ finderRadius = 0
    /\ calls = <<>>

NextDisk == DrawNextCircle

SpecDisk == InitDisk /\ [][NextDisk]_vars

RowOf(m, y) == { x \in 0 .. DiskSide - 1 : <<x, y>> \in m.bits }

ColumnOf(m, x) == { y \in 0 .. DiskSide - 1 : <<x, y>> \in m.bits }

\* S is an interval: at most one element of S has no successor in S.
IsInterval(S) == Cardinality({ k \in S : k + 1 \notin S }) <= 1

\* C9: after drawCircle with color 1 at the radii 0, 1, ..., r around a
\* centre at least r pixels from every edge, no unset pixel lies between two
\* set pixels of a row or of a column, and the region is connected (every row
\* that holds a set pixel holds the one in the centre's column).
C9_DiskHasNoHole ==
    (mode = "disk" /\ radius > 0) =>
        /\ \A y \in 0 .. DiskSide - 1 :
              /\ IsInterval(RowOf(matrix, y))
              /\ RowOf(matrix, y) # {} => centre.x[1] \in RowOf(matrix, y)
        /\ \A x \in 0 .. DiskSide - 1 : IsInterval(ColumnOf(matrix, x))
        /\ <<centre.x[1] + (radius \div 7 - 1), centre.y[1]>> \in matrix.bits

C9_Witness ==
    /\ mode = "disk" /\ radius = 7 * 6
    /\ Len(calls) = 6
    /\ Cardinality(matrix.bits) = 117
    /\ <<centre.x[1], centre.y[1] + 5>> \in matrix.bits

(***************************************************************************)
(* The radii of the two patterns, for any FINDER_RADIUS.                   *)
(***************************************************************************)
MaxFinderRadius == 35

Tagged(tag, radii7) == [k \in 1 .. Len(radii7) |-> <<tag, radii7[k]>>]

\* drawFinderPattern(centre, matrix): the drawCircle calls it makes.
CallDrawFinderPattern ==
    /\ pc \in {"start", "alignmentDrawn"}
    /\ calls' = calls \o Tagged("finder", FinderRadii7(finderRadius))
    /\ pc' = IF pc = "start" THEN "finderDrawn" ELSE "bothDrawn"
    /\ UNCHANGED <<mode, content, code, matrix, i, j, drawn, image,
                   centre, radius, finderRadius>>

\* drawAlignmentPattern(centre, matrix): the drawCircle calls it makes.
CallDrawAlignmentPattern ==
    /\ pc \in {"start", "finderDrawn"}
    /\ calls' = calls \o Tagged("alignment", AlignmentRadii7(finderRadius))
    /\ pc' = IF pc = "start" THEN "alignmentDrawn" ELSE "bothDrawn"
    /\ UNCHANGED <<mode, content, code, matrix, i, j, drawn, image,
                   centre, radius, finderRadius>>

InitPatterns ==
    /\ mode = "patterns"
    /\ pc = "start"
    /\ content = <<>>
    /\ code = NoCode
    /\ matrix = NoMatrix
    /\ i = 0
    /\ j = 0
    /\ drawn = {}
    /\ image = NoImage
    /\ centre = [x |-> 0, y |-> 0]
    /\ radius = 0
    /\ finderRadius \in 0 .. MaxFinderRadius
    /\ calls = <<>>

NextPatterns == CallDrawFinderPattern \/ CallDrawAlignmentPattern

SpecPatterns == InitPatterns /\ [][NextPatterns]_vars

RadiiOf(tag) == { calls[k][2] : k \in { n \in 1 .. Len(calls) : calls[n][1] = tag } }

Sevenths(S) == { 7 * k : k \in S }

\* C10: for every integer FINDER_RADIUS R >= 0, drawFinderPattern calls
\* drawCircle at exactly the integer radii 0..floor(3R/7) and
\* floor(5R/7)+1..R, drawAlignmentPattern at exactly the integer radii
\* floor(3R/7)+1..floor(5R/7); every radius is an integer, and the alignment
\* radii are disjoint from the finder radii.
C10_PatternRadii ==
    LET R == finderRadius
    IN  /\ pc \in {"finderDrawn", "bothDrawn"} =>
              RadiiOf("finder") =
                  Sevenths((0 .. (3 * R) \div 7) \cup (((5 * R) \div 7 + 1) .. R))
        /\ pc \in {"alignmentDrawn", "bothDrawn"} =>
              RadiiOf("alignment") =
                  Sevenths(((3 * R) \div 7 + 1) .. ((5 * R) \div 7))
        /\ \A k \in 1 .. Len(calls) : calls[k][2] % 7 = 0
        /\ RadiiOf("finder") \cap RadiiOf("alignment") = {}

====
